---- MODULE Spec2Model ----
(***************************************************************************)
(* Region and numbering engine of numerotator: reference model, anchor     *)
(* transfer, region boundary detection and numbering of the residues.      *)
(*                                                                         *)
(* Byte strings are sequences of one-character strings.  An Alignment is   *)
(* the record of bio::alignment::Alignment; its path is computed the way   *)
(* Alignment::path computes it (1-based coordinates, walked from the end). *)
(***************************************************************************)
EXTENDS Integers, Sequences, FiniteSets, TLC

VARIABLES
    pc,            \* position of the driver
    alignment_str, \* the gapped alignment string handed to ReferenceSequence::new
    reference,     \* Result<ReferenceSequence, IMGTError>
    alignment,     \* the bio Alignment of the reference (x) against the query (y)
    transferred,   \* Result<ConservedResidues, TransferErr>
    vregion,       \* Result<VRegionAnnotation, IMGTError>, or a panic
    region,        \* the CDR Annotation handed to a CDR numberer on its own
    missing,       \* Option of the canonical numbers the reference is documented to lack
    numbered,      \* Result<Vec<Annotation>, IMGTError> of the numbering
    diagnostic,    \* the message of the error written by report_error, if any
    output         \* the region annotations written for the query

vars == <<pc, alignment_str, reference, alignment, transferred, vregion,
          region, missing, numbered, diagnostic, output>>

(***************************************************************************)
(* Bounds of the explored inputs.                                          *)
(***************************************************************************)
MaxFill == 12    \* longest overwritten stretch of a reference string
MaxRun == 2      \* length of a short run of Subst/Del/Ins operations in an alignment
LongRun == 22    \* the one long run of reference residues the query lacks
MaxXStart == 1   \* reference residues a local alignment skips at the start, when any
MaxXTail == 1    \* reference residues a local alignment skips at the end, when any
MaxYStart == 1   \* query residues before the aligned span, when there are any
MaxRegionStart == 2    \* largest start of a CDR numbered on its own
MaxRegionLength == 20  \* longest CDR numbered on its own

(***************************************************************************)
(* Values.                                                                 *)
(***************************************************************************)
None == [tag |-> "None"]
Some(v) == [tag |-> "Some", value |-> v]
Ok(v) == [tag |-> "Ok", value |-> v]
Err(e) == [tag |-> "Err", error |-> e]
Panic(msg) == [tag |-> "Panic", message |-> msg]

TEST_ALIGNMENT_STR ==
    <<
       "Q", "V", "Q", "L", "V", "Q", "S", "G", "A", "-", "E", "V", "K", "K", "P", "G",
       "A", "S", "V", "K", "V", "S", "C", "K", "A", "S", "G", "Y", "T", "F", "-", "-",
       "-", "-", "T", "S", "Y", "G", "I", "S", "W", "V", "R", "Q", "A", "P", "G", "Q",
       "G", "L", "E", "W", "M", "G", "W", "I", "S", "A", "Y", "-", "-", "N", "G", "N",
       "T", "N", "Y", "A", "Q", "K", "L", "Q", "-", "G", "R", "V", "T", "M", "T", "T",
       "D", "T", "S", "T", "S", "T", "A", "Y", "M", "E", "L", "R", "S", "L", "R", "S",
       "D", "D", "T", "A", "V", "Y", "Y", "C", "A", "R", "-", "-", "-", "-", "-", "-",
       "-", "-", "M", "D", "V", "W", "G", "Q", "G", "T", "T", "V", "T", "V", "S", "S"
    >>

\* The bytes that overwrite a stretch of the sample string: the gap, the
\* letters the anchor checks look for, and Q for any other residue.  Every
\* caller passes str::as_bytes(), so the bytes are valid UTF-8.
FillBytes == {"-", "F", "W", "Q"}
Utf8Bytes == {TEST_ALIGNMENT_STR[i] : i \in DOMAIN TEST_ALIGNMENT_STR} \cup FillBytes

Min(a, b) == IF a < b THEN a ELSE b

(***************************************************************************)
(* conserved_residues.rs                                                   *)
(***************************************************************************)
\* The count without take(index): every gap of the sequence.
count_gaps_in_whole_sequence(sequence, index) ==
    Cardinality({i \in 1..Len(sequence) : sequence[i] = "-"})

\* sequence.into_iter().take(index).filter(|c| c == '-').count()
count_gaps_in_sequence_before_index(sequence, index) ==
    Cardinality({i \in 1..Min(index, Len(sequence)) : sequence[i] = "-"})

\* A copy-and-paste slip: first_cys taken at canonical position 41.
ConservedResidues_from_pasted(bytes) ==
    [first_cys      |-> 41 - count_gaps_in_sequence_before_index(bytes, 41),
     conserved_trp  |-> 41 - count_gaps_in_sequence_before_index(bytes, 41),
     hydrophobic_89 |-> 89 - count_gaps_in_sequence_before_index(bytes, 89),
     second_cys     |-> 104 - count_gaps_in_sequence_before_index(bytes, 104),
     j_trp_or_phe   |-> 118 - count_gaps_in_sequence_before_index(bytes, 118)]

\* impl From<&[u8]> for ConservedResidues
ConservedResidues_from(bytes) ==
    [first_cys      |-> 23 - count_gaps_in_sequence_before_index(bytes, 23),
     conserved_trp  |-> 41 - count_gaps_in_sequence_before_index(bytes, 41),
     hydrophobic_89 |-> 89 - count_gaps_in_sequence_before_index(bytes, 89),
     second_cys     |-> 104 - count_gaps_in_sequence_before_index(bytes, 104),
     j_trp_or_phe   |-> 118 - count_gaps_in_sequence_before_index(bytes, 118)]

(***************************************************************************)
(* reference/mod.rs                                                        *)
(***************************************************************************)
CanonicalAnchors == <<23, 41, 89, 104, 118>>

\* enumerate().filter_map(position + 1 in [23, 41, 89, 104, 118]): the bytes
\* found at the canonical anchor positions, in order.
AnchorBytes(bytes) ==
    LET present == {k \in DOMAIN CanonicalAnchors : CanonicalAnchors[k] <= Len(bytes)}
    IN [k \in 1..Cardinality(present) |-> bytes[CanonicalAnchors[k]]]

\* The check without the test of position 89.
is_valid_alignment_without_89(bytes) ==
    LET tup == AnchorBytes(bytes)
    IN IF Len(tup) # 5 THEN None
       ELSE IF /\ tup[1] = "C"
               /\ tup[2] = "W"
               /\ tup[4] = "C"
               /\ tup[5] \in {"F", "W"}
            THEN Some(ConservedResidues_from(bytes))
            ELSE None

is_valid_alignment(bytes) ==
    LET tup == AnchorBytes(bytes)
    IN IF Len(tup) # 5 THEN None  \* collect_tuple needs exactly five items
       ELSE IF /\ tup[1] = "C"
               /\ tup[2] = "W"
               /\ tup[4] = "C"
               /\ tup[5] \in {"F", "W"}
               /\ tup[3] \in {"A", "I", "L", "M", "F", "W", "Y", "V"}
            THEN Some(ConservedResidues_from(bytes))
            ELSE None

from_utf8_ok(bytes) == \A i \in DOMAIN bytes : bytes[i] \in Utf8Bytes

ReferenceSequence_new(name, bytes) ==
    IF ~from_utf8_ok(bytes) THEN Err("Utf8Error")
    ELSE LET cr == is_valid_alignment(bytes)
         IN IF cr = None THEN Err("InvalidAlignment")
            ELSE Ok([alignment |-> bytes, name |-> name,
                     conserved_residues |-> cr.value])

get_sequence(ref) == SelectSeq(ref.alignment, LAMBDA c : c # "-")


(***************************************************************************)
(* bio::alignment::Alignment, as the repository uses it.                   *)
(***************************************************************************)
Op(kind) == [kind |-> kind, len |-> 1]
Clip(kind, n) == [kind |-> kind, len |-> n]

XStep(op) ==
    CASE op.kind \in {"Match", "Subst", "Ins"} -> 1
      [] op.kind = "Xclip" -> op.len
      [] OTHER -> 0

YStep(op) ==
    CASE op.kind \in {"Match", "Subst", "Del"} -> 1
      [] op.kind = "Yclip" -> op.len
      [] OTHER -> 0

\* Alignment::path pushes (x_i, y_i, op) for the operations taken from the
\* last to the first, stepping the coordinates back by each operation, then
\* reverses.  path_walk(operations, lo, hi, x_i, y_i) is the part of the path
\* for operations lo..hi, (x_i, y_i) being the coordinates at operation hi;
\* the later half is walked first and hands its coordinates to the earlier one.
RECURSIVE path_walk(_, _, _, _, _)
path_walk(operations, lo, hi, x_i, y_i) ==
    IF lo > hi THEN <<>>
    ELSE IF lo = hi THEN <<[x |-> x_i, y |-> y_i, op |-> operations[hi]]>>
    ELSE LET mid == (lo + hi) \div 2
             later == path_walk(operations, mid + 1, hi, x_i, y_i)
         IN IF Len(later) = 0 THEN <<>>  \* never: only makes TLC walk `later` first
            ELSE path_walk(operations, lo, mid,
                           later[1].x - XStep(operations[mid + 1]),
                           later[1].y - YStep(operations[mid + 1])) \o later

path(a) ==
    IF a.operations = <<>> THEN <<>>
    ELSE path_walk(a.operations, 1, Len(a.operations), a.xend, a.yend)

\* Iterator::find: the first element of p among those at the indices hits,
\* the indices of the elements that satisfy the predicate.
Find(p, hits) ==
    IF hits = {} THEN None
    ELSE Some(p[CHOOSE i \in hits : \A j \in hits : i <= j])

(***************************************************************************)
(* conserved_residues.rs: anchor transfer                                  *)
(***************************************************************************)
\* The lookup with the query coordinate taken to 0-based.
find_corresponding_position_zero_based(p, pos) ==
    LET hit == Find(p, {i \in DOMAIN p :
                           p[i].x = pos /\ p[i].op.kind \in {"Match", "Subst"}})
    IN IF hit = None THEN None ELSE Some(hit.value.y - 1)

\* The lookup without the test of the operation.
find_corresponding_position_any_operation(p, pos) ==
    LET hit == Find(p, {i \in DOMAIN p : p[i].x = pos})
    IN IF hit = None THEN None ELSE Some(hit.value.y)

\* p is alignment.path(), which every call of the function computes afresh
\* from the same alignment.
find_corresponding_position_in_alignment(p, pos) ==
    LET hit == Find(p, {i \in DOMAIN p :
                           p[i].x = pos /\ p[i].op.kind \in {"Match", "Subst"}})
    IN IF hit = None THEN None ELSE Some(hit.value.y)

\* transfer with a pasted argument: second_cys is looked up at the reference's
\* first_cys.
transfer_pasted(self, a) ==
    LET p == path(a)
        first_cys      == find_corresponding_position_in_alignment(p, self.first_cys)
        conserved_trp  == find_corresponding_position_in_alignment(p, self.conserved_trp)
        hydrophobic_89 == find_corresponding_position_in_alignment(p, self.hydrophobic_89)
        j_trp_or_phe   == find_corresponding_position_in_alignment(p, self.j_trp_or_phe)
    IN IF \/ first_cys = None
          \/ conserved_trp = None
          \/ hydrophobic_89 = None
          \/ j_trp_or_phe = None
       THEN Err("ConservedPositionNotInAlignment")
       ELSE Ok([first_cys      |-> first_cys.value,
                conserved_trp  |-> conserved_trp.value,
                hydrophobic_89 |-> hydrophobic_89.value,
                second_cys     |-> first_cys.value,
                j_trp_or_phe   |-> j_trp_or_phe.value])

\* The fields are evaluated in order and `?` returns at the first None.
transfer(self, a) ==
    LET p == path(a)
        first_cys      == find_corresponding_position_in_alignment(p, self.first_cys)
        conserved_trp  == find_corresponding_position_in_alignment(p, self.conserved_trp)
        hydrophobic_89 == find_corresponding_position_in_alignment(p, self.hydrophobic_89)
        second_cys     == find_corresponding_position_in_alignment(p, self.second_cys)
        j_trp_or_phe   == find_corresponding_position_in_alignment(p, self.j_trp_or_phe)
    IN IF \/ first_cys = None
          \/ conserved_trp = None
          \/ hydrophobic_89 = None
          \/ second_cys = None
          \/ j_trp_or_phe = None
       THEN Err("ConservedPositionNotInAlignment")
       ELSE Ok([first_cys      |-> first_cys.value,
                conserved_trp  |-> conserved_trp.value,
                hydrophobic_89 |-> hydrophobic_89.value,
                second_cys     |-> second_cys.value,
                j_trp_or_phe   |-> j_trp_or_phe.value])

(***************************************************************************)
(* regions.rs: region boundary detection                                   *)
(***************************************************************************)
\* usize is 64 bits wide; values here stay far below 2^30, so a wrapped
\* difference is kept modulo 2^30, above every position of the model.
UsizeModulus == 2 ^ 30

\* a - b on usize: the difference, or the wrapped difference when the build
\* has no overflow checks.
WrappingSub(a, b) == IF a >= b THEN a - b ELSE a - b + UsizeModulus

Annotation(start, end, name) == [start |-> start, end |-> end, name |-> name]

NonClip(op) == op.kind \notin {"Xclip", "Yclip"}

\* The validations with FR2/FR3 checked before FR1/FR2.
ValidateFrameworks_fr2_first(fr1, fr2, fr3, fr4) ==
    IF fr2.end > fr3.start THEN Err(<<"OverlappingRegions", fr2.name, fr3.name>>)
    ELSE IF fr1.end > fr2.start THEN Err(<<"OverlappingRegions", fr1.name, fr2.name>>)
    ELSE IF fr3.end > fr4.start THEN Err(<<"OverlappingRegions", fr3.name, fr4.name>>)
    ELSE Ok([fr1 |-> fr1, fr2 |-> fr2, fr3 |-> fr3, fr4 |-> fr4])

\* The three validations, in the order of the code.
ValidateFrameworks(fr1, fr2, fr3, fr4) ==
    IF fr1.end > fr2.start THEN Err(<<"OverlappingRegions", fr1.name, fr2.name>>)
    ELSE IF fr2.end > fr3.start THEN Err(<<"OverlappingRegions", fr2.name, fr3.name>>)
    ELSE IF fr3.end > fr4.start THEN Err(<<"OverlappingRegions", fr3.name, fr4.name>>)
    ELSE Ok([fr1 |-> fr1, fr2 |-> fr2, fr3 |-> fr3, fr4 |-> fr4])

\* The frameworks with FR4 ending at the 0-based position of the last entry.
Frameworks_short_fr4(conserved_residues, v_region_start, v_region_end) ==
    [fr1 |-> Annotation(v_region_start, conserved_residues.first_cys + 3, "FR1-IMGT"),
     fr2 |-> Annotation(WrappingSub(conserved_residues.conserved_trp, 2),
                        conserved_residues.conserved_trp + 14, "FR2-IMGT"),
     fr3 |-> Annotation(WrappingSub(conserved_residues.hydrophobic_89, 23),
                        conserved_residues.second_cys, "FR3-IMGT"),
     fr4 |-> Annotation(conserved_residues.j_trp_or_phe, v_region_end - 1, "FR4-IMGT")]

\* The four framework annotations built from the anchors and the extent.
Frameworks(conserved_residues, v_region_start, v_region_end) ==
    [fr1 |-> Annotation(v_region_start, conserved_residues.first_cys + 3, "FR1-IMGT"),
     fr2 |-> Annotation(WrappingSub(conserved_residues.conserved_trp, 2),
                        conserved_residues.conserved_trp + 14, "FR2-IMGT"),
     fr3 |-> Annotation(WrappingSub(conserved_residues.hydrophobic_89, 23),
                        conserved_residues.second_cys, "FR3-IMGT"),
     fr4 |-> Annotation(conserved_residues.j_trp_or_phe, v_region_end, "FR4-IMGT")]

\* FrameworkAnnotation::try_from.  overflow_checks tells whether the build
\* panics on usize underflow (debug) or wraps (release).
FrameworkAnnotation_try_from(conserved_residues, a, overflow_checks) ==
    LET p == path(a)
        start_entry == Find(p, {i \in DOMAIN p : p[i].x = 1 /\ NonClip(p[i].op)})
        end_entry == Find(p, {i \in DOMAIN p : p[i].x = a.xend /\ NonClip(p[i].op)})
        v_region_start == WrappingSub(start_entry.value.y, 1)
        v_region_end == end_entry.value.y
        fr == Frameworks(conserved_residues, v_region_start, v_region_end)
    IN IF start_entry = None
       THEN Panic("Alignment should contain first amino acid of reference sequence.")
       ELSE IF overflow_checks /\ start_entry.value.y < 1
       THEN Panic("attempt to subtract with overflow")
       ELSE IF end_entry = None
       THEN Panic("Alignment should contain first amino acid of reference sequence.")
       ELSE IF overflow_checks /\ (\/ conserved_residues.conserved_trp < 2
                                   \/ conserved_residues.hydrophobic_89 < 23)
       THEN Panic("attempt to subtract with overflow")
       ELSE ValidateFrameworks(fr.fr1, fr.fr2, fr.fr3, fr.fr4)

\* impl TryFrom<FrameworkAnnotation> for CDRAnnotation
CDRAnnotation_try_from(framework_annotation) ==
    Ok([cdr1 |-> Annotation(framework_annotation.fr1.end,
                            framework_annotation.fr2.start, "CDR1-IMGT"),
        cdr2 |-> Annotation(framework_annotation.fr2.end,
                            framework_annotation.fr3.start, "CDR2-IMGT"),
        cdr3 |-> Annotation(framework_annotation.fr3.end,
                            framework_annotation.fr4.start, "CDR3-IMGT")])

VRegionAnnotation_try_from(conserved_residues, a, overflow_checks) ==
    LET framework_annotation ==
            FrameworkAnnotation_try_from(conserved_residues, a, overflow_checks)
    IN IF framework_annotation.tag # "Ok" THEN framework_annotation
       ELSE Ok([framework_annotation |-> framework_annotation.value,
                cdr_annotation |-> CDRAnnotation_try_from(framework_annotation.value).value])

\* impl IntoIterator for VRegionAnnotation: the seven regions in order.
VRegionAnnotation_into_iter(self) ==
    <<self.framework_annotation.fr1, self.cdr_annotation.cdr1,
      self.framework_annotation.fr2, self.cdr_annotation.cdr2,
      self.framework_annotation.fr3, self.cdr_annotation.cdr3,
      self.framework_annotation.fr4>>

(***************************************************************************)
(* reference/mod.rs: the reference annotated against itself                *)
(***************************************************************************)
\* The Alignment built by get_vregion_annotation: every residue a Match.
IdentityAlignment(ref) ==
    LET length == Len(get_sequence(ref))
    IN [xstart |-> 0, ystart |-> 0, xend |-> length, yend |-> length,
        xlen |-> length, ylen |-> length,
        operations |-> [i \in 1..length |-> Op("Match")],
        mode |-> "Local"]

get_vregion_annotation(ref, overflow_checks) ==
    LET r == VRegionAnnotation_try_from(ref.conserved_residues,
                                        IdentityAlignment(ref), overflow_checks)
    IN IF r.tag = "Err"
       THEN Panic("Should always be able to annotate reference sequences.")
       ELSE r

(***************************************************************************)
(* numbering.rs: canonical numbers of the residues of a region             *)
(***************************************************************************)
FR1_START == 1
CDR1_START == 27
FR2_START == 39
CDR2_START == 56
FR3_START == 66
CDR3_START == 105
FR4_START == 118
FR4_END == 128

\* The half-open range from..to of Rust as a sequence.
Range(from, to) == [i \in 1..(to - from) |-> from + i - 1]

\* number.to_string() of every number of a sequence.
ToStrings(numbers) == [i \in DOMAIN numbers |-> ToString(numbers[i])]

\* The zip with the positions counted one too far.
ZipPositions_one_based(names, start, end) ==
    [i \in 1..Min(Len(names), end - start) |->
        Annotation(start + i, start + i + 1, names[i])]

\* names.zip(start..end).map(|(name, position)| Annotation {position, position + 1, name})
ZipPositions(names, start, end) ==
    [i \in 1..Min(Len(names), end - start) |->
        Annotation(start + i - 1, start + i, names[i])]

cdr1_length_ranges_mapping ==
    (12 :> <<27, 28, 29, 30, 31, 32, 33, 34, 35, 36, 37, 38>>)
    @@ (11 :> <<27, 28, 29, 30, 31, 32, 34, 35, 36, 37, 38>>)
    @@ (10 :> <<27, 28, 29, 30, 31, 34, 35, 36, 37, 38>>)
    @@ (9 :> <<27, 28, 29, 30, 31, 35, 36, 37, 38>>)
    @@ (8 :> <<27, 28, 29, 30, 35, 36, 37, 38>>)
    @@ (7 :> <<27, 28, 29, 30, 36, 37, 38>>)
    @@ (6 :> <<27, 28, 29, 36, 37, 38>>)
    @@ (5 :> <<27, 28, 29, 37, 38>>)

cdr2_length_ranges_mapping ==
    (10 :> <<56, 57, 58, 59, 60, 61, 62, 63, 64, 65>>)
    @@ (9 :> <<56, 57, 58, 59, 60, 62, 63, 64, 65>>)
    @@ (8 :> <<56, 57, 58, 59, 62, 63, 64, 65>>)
    @@ (7 :> <<56, 57, 58, 59, 63, 64, 65>>)
    @@ (6 :> <<56, 57, 58, 63, 64, 65>>)
    @@ (5 :> <<56, 57, 58, 64, 65>>)
    @@ (4 :> <<56, 57, 64, 65>>)
    @@ (3 :> <<56, 57, 65>>)
    @@ (2 :> <<56, 65>>)
    @@ (1 :> <<56>>)
    @@ (0 :> <<>>)

cdr3_length_ranges_mapping ==
    (13 :> <<105, 106, 107, 108, 109, 110, 111, 112, 113, 114, 115, 116, 117>>)
    @@ (12 :> <<105, 106, 107, 108, 109, 110, 112, 113, 114, 115, 116, 117>>)
    @@ (11 :> <<105, 106, 107, 108, 109, 110, 113, 114, 115, 116, 117>>)
    @@ (10 :> <<105, 106, 107, 108, 109, 113, 114, 115, 116, 117>>)
    @@ (9 :> <<105, 106, 107, 108, 109, 114, 115, 116, 117>>)
    @@ (8 :> <<105, 106, 107, 108, 114, 115, 116, 117>>)
    @@ (7 :> <<105, 106, 107, 108, 115, 116, 117>>)
    @@ (6 :> <<105, 106, 107, 115, 116, 117>>)
    @@ (5 :> <<105, 106, 107, 116, 117>>)

\* number_cdr1 numbering every longer region with the table of length 12.
number_cdr1_clamped(start, end) ==
    LET cdr1_size == end - start
    IN IF cdr1_size < 5 THEN Err(<<"RegionTooLong", "CDR1-IMGT", cdr1_size>>)
       ELSE Ok(ZipPositions(ToStrings(cdr1_length_ranges_mapping[Min(cdr1_size, 12)]),
                            start, end))

number_cdr1(start, end) ==
    LET cdr1_size == end - start
    IN IF cdr1_size \notin DOMAIN cdr1_length_ranges_mapping
       THEN Err(<<"RegionTooLong", "CDR1-IMGT", cdr1_size>>)
       ELSE Ok(ZipPositions(ToStrings(cdr1_length_ranges_mapping[cdr1_size]), start, end))

number_cdr2(start, end) ==
    LET cdr2_size == end - start
    IN IF cdr2_size \notin DOMAIN cdr2_length_ranges_mapping
       THEN Err(<<"RegionTooLong", "CDR2-IMGT", cdr2_size>>)
       ELSE Ok(ZipPositions(ToStrings(cdr2_length_ranges_mapping[cdr2_size]), start, end))

\* The additional positions with both halves rounded down.
additional_positions_rounded_down(start, end) ==
    LET n_extra_positions == end - start
        n_extra_positions_111 == n_extra_positions \div 2
        n_extra_positions_112 == n_extra_positions \div 2
        extra_positions_111 ==
            [i \in 1..n_extra_positions_111 |-> "111." \o ToString(i - 1)]
        extra_positions_112 ==
            [i \in 1..n_extra_positions_112 |->
                "112." \o ToString(n_extra_positions_112 - i)]
    IN ZipPositions(extra_positions_111 \o extra_positions_112, start, end)

\* Additional positions between 111 and 112 in the CDR3-IMGT region.
additional_positions_between_111_and_112(start, end) ==
    LET n_extra_positions == end - start
        n_extra_positions_111 == n_extra_positions \div 2
        n_extra_positions_112 == (n_extra_positions + 1) \div 2
        extra_positions_111 ==
            [i \in 1..n_extra_positions_111 |-> "111." \o ToString(i - 1)]
        extra_positions_112 ==
            [i \in 1..n_extra_positions_112 |->
                "112." \o ToString(n_extra_positions_112 - i)]
    IN ZipPositions(extra_positions_111 \o extra_positions_112, start, end)

\* number_cdr3 rejecting a region of exactly five residues as well.
number_cdr3_five_too_short(start, end) ==
    LET cdr3_size == end - start
    IN IF cdr3_size <= 5 THEN Err(<<"CDR3TooShort", cdr3_size>>)
       ELSE IF cdr3_size <= 13
       THEN Ok(ZipPositions(ToStrings(cdr3_length_ranges_mapping[cdr3_size]), start, end))
       ELSE Ok(ZipPositions(ToStrings(Range(CDR3_START, 111 + 1)), start, start + 6)
               \o additional_positions_between_111_and_112(start + 6, end - 5)
               \o ZipPositions(ToStrings(Range(113, FR4_START)), end - 5, end))

number_cdr3(start, end) ==
    LET cdr3_size == end - start
    IN IF cdr3_size < 5 THEN Err(<<"CDR3TooShort", cdr3_size>>)
       ELSE IF cdr3_size <= 13
       THEN Ok(ZipPositions(ToStrings(cdr3_length_ranges_mapping[cdr3_size]), start, end))
       ELSE Ok(ZipPositions(ToStrings(Range(CDR3_START, 111 + 1)), start, start + 6)
               \o additional_positions_between_111_and_112(start + 6, end - 5)
               \o ZipPositions(ToStrings(Range(113, FR4_START)), end - 5, end))

(***************************************************************************)
(* single_letter_annotations.rs: the numberers that take the length of the *)
(* region and return the labels alone.  The three tables are the tables of *)
(* numbering.rs, byte for byte.                                            *)
(***************************************************************************)
single_letter_annotations_number_cdr1(cdr1_size) ==
    IF cdr1_size \notin DOMAIN cdr1_length_ranges_mapping
    THEN Err(<<"RegionTooLong", "CDR1-IMGT", cdr1_size>>)
    ELSE Ok(ToStrings(cdr1_length_ranges_mapping[cdr1_size]))

single_letter_annotations_number_cdr2(cdr2_size) ==
    IF cdr2_size \notin DOMAIN cdr2_length_ranges_mapping
    THEN Err(<<"RegionTooLong", "CDR2-IMGT", cdr2_size>>)
    ELSE Ok(ToStrings(cdr2_length_ranges_mapping[cdr2_size]))

single_letter_annotations_additional_positions_between_111_and_112(cdr3_size) ==
    IF cdr3_size < 13 THEN <<>>
    ELSE LET n_extra_positions == cdr3_size - 13
             n_extra_positions_111 == n_extra_positions \div 2
             n_extra_positions_112 == (n_extra_positions + 1) \div 2
             extra_positions_111 ==
                 [i \in 1..n_extra_positions_111 |-> "111." \o ToString(i - 1)]
             extra_positions_112 ==
                 [i \in 1..n_extra_positions_112 |->
                     "112." \o ToString(n_extra_positions_112 - i)]
         IN extra_positions_111 \o extra_positions_112

\* (105..=111) ends at 111, (113..117) ends at 116.
single_letter_annotations_number_cdr3(cdr3_size) ==
    IF cdr3_size < 5 THEN Err(<<"CDR3TooShort", cdr3_size>>)
    ELSE IF cdr3_size <= 13
    THEN Ok(ToStrings(cdr3_length_ranges_mapping[cdr3_size]))
    ELSE Ok(ToStrings(Range(105, 111 + 1))
            \o single_letter_annotations_additional_positions_between_111_and_112(cdr3_size)
            \o ToStrings(Range(113, 117)))

\* The canonical spans imgt::FR1 .. imgt::FR4 (both ends inclusive).
FrameworkRange(framework) ==
    CASE framework = "FR1" -> Range(FR1_START, CDR1_START)
      [] framework = "FR2" -> Range(FR2_START, CDR2_START)
      [] framework = "FR3" -> Range(FR3_START, CDR3_START)
      [] framework = "FR4" -> Range(FR4_START, FR4_END + 1)

\* The canonical numbers of a framework that the reference is documented to
\* lack.
get_missing_positions_in_framework(ref, framework) ==
    LET range == FrameworkRange(framework)
    IN {pos \in ref.missing_positions : range[1] <= pos /\ pos <= range[Len(range)]}

\* The `numbers` of number_framework: range.filter(|pos| missing.contains(pos)).
framework_numbers(ref, framework) ==
    LET missing_positions == get_missing_positions_in_framework(ref, framework)
    IN SelectSeq(FrameworkRange(framework), LAMBDA pos : pos \in missing_positions)

\* The query positions of the path entries of a framework: the entries whose
\* x lies in the range, then those that are Match or Subst.
framework_query_positions(p, framework) ==
    LET range == FrameworkRange(framework)
        first == range[1]
        last == range[Len(range)]
        kept == SelectSeq(p, LAMBDA e : /\ first <= e.x /\ e.x <= last
                                        /\ e.op.kind \in {"Match", "Subst"})
    IN [i \in DOMAIN kept |-> kept[i].y]

\* number_framework on the path p of the alignment: the query positions are
\* zipped with `numbers`; the closure names the pair (number, position), so
\* that the query position is written into the name and the canonical number
\* into start and end.
number_framework_on(p, ref, framework) ==
    LET numbers == framework_numbers(ref, framework)
        ys == framework_query_positions(p, framework)
    IN [i \in 1..Min(Len(ys), Len(numbers)) |->
           Annotation(numbers[i] - 1, numbers[i], ToString(ys[i]))]

number_framework(reference_alignment, framework) ==
    number_framework_on(path(reference_alignment.alignment),
                        reference_alignment.reference, framework)

\* number_regions returning the labels collected before the first failing CDR.
number_regions_partial(self, reference_alignment) ==
    LET cdr1 == number_cdr1(self.cdr_annotation.cdr1.start, self.cdr_annotation.cdr1.end)
        cdr2 == number_cdr2(self.cdr_annotation.cdr2.start, self.cdr_annotation.cdr2.end)
        cdr3 == number_cdr3(self.cdr_annotation.cdr3.start, self.cdr_annotation.cdr3.end)
        p == path(reference_alignment.alignment)
        ref == reference_alignment.reference
    IN IF cdr1.tag = "Err" THEN Ok(number_framework_on(p, ref, "FR1"))
       ELSE IF cdr2.tag = "Err"
       THEN Ok(number_framework_on(p, ref, "FR1") \o cdr1.value
               \o number_framework_on(p, ref, "FR2"))
       ELSE IF cdr3.tag = "Err"
       THEN Ok(number_framework_on(p, ref, "FR1") \o cdr1.value
               \o number_framework_on(p, ref, "FR2") \o cdr2.value
               \o number_framework_on(p, ref, "FR3"))
       ELSE Ok(number_framework_on(p, ref, "FR1") \o cdr1.value
               \o number_framework_on(p, ref, "FR2") \o cdr2.value
               \o number_framework_on(p, ref, "FR3") \o cdr3.value
               \o number_framework_on(p, ref, "FR4"))

\* VRegionAnnotation::number_regions: the first failing `?` returns.
number_regions(self, reference_alignment) ==
    LET cdr1 == number_cdr1(self.cdr_annotation.cdr1.start, self.cdr_annotation.cdr1.end)
        cdr2 == number_cdr2(self.cdr_annotation.cdr2.start, self.cdr_annotation.cdr2.end)
        cdr3 == number_cdr3(self.cdr_annotation.cdr3.start, self.cdr_annotation.cdr3.end)
        p == path(reference_alignment.alignment)
        ref == reference_alignment.reference
    IN IF cdr1.tag = "Err" THEN cdr1
       ELSE IF cdr2.tag = "Err" THEN cdr2
       ELSE IF cdr3.tag = "Err" THEN cdr3
       ELSE Ok(number_framework_on(p, ref, "FR1") \o cdr1.value
               \o number_framework_on(p, ref, "FR2") \o cdr2.value
               \o number_framework_on(p, ref, "FR3") \o cdr3.value
               \o number_framework_on(p, ref, "FR4"))

(***************************************************************************)
(* The messages of the errors (thiserror's #[error] formats): a message is *)
(* the sequence of its literal pieces and formatted fields.                *)
(***************************************************************************)
IMGTError_fmt(error) ==
    CASE error[1] = "RegionTooLong" ->
            <<"Unexpected length (", ToString(error[3]), ") for region '", error[2], "'.">>
      [] error[1] = "CDR3TooShort" ->
            <<"CDR3 region too short. Expected at least 5, got ", ToString(error[2])>>
      [] error[1] = "OverlappingRegions" ->
            <<"Region '", error[2], "' and '", error[2], "' overlapped.">>

TransferErr_fmt(error) ==
    CASE error = "ConservedPositionNotInAlignment" ->
            <<"Conserved residue not in alignment.">>

\* report_error: the message of the error is written for an Err, nothing for
\* an Ok.
report_error(result, message, before) ==
    IF result.tag = "Err" THEN message ELSE before

(***************************************************************************)
(* Inputs.                                                                 *)
(***************************************************************************)
Fill(s, from, len, byte) ==
    [i \in 1..Len(s) |-> IF from <= i /\ i < from + len THEN byte ELSE s[i]]

Truncate(s, n) == SubSeq(s, 1, Min(n, Len(s)))

\* Reference strings handed to ReferenceSequence::new: the sample string with
\* one stretch overwritten, cut just below, at, or beyond canonical position 118.
ReferenceInputs ==
    {Truncate(Fill(TEST_ALIGNMENT_STR, from, len, byte), n) :
        from \in 1..Len(TEST_ALIGNMENT_STR), len \in 0..MaxFill,
        byte \in FillBytes, n \in {117, 118, Len(TEST_ALIGNMENT_STR)}}

\* Two more curated references, both without residues before canonical
\* position 22 and after 118.  In the first CDR1 and CDR2 are empty, so that
\* FR1 ends where FR2 starts and FR2 ends where FR3 starts; the second has
\* one residue less between the first Cysteine and the Tryptophan.
COMPACT_ALIGNMENT_STR ==
    Truncate(Fill(Fill(Fill(TEST_ALIGNMENT_STR, 1, 21, "-"), 24, 13, "-"),
                  56, 10, "-"), 118)

TIGHT_ALIGNMENT_STR == Fill(COMPACT_ALIGNMENT_STR, 37, 1, "-")

CuratedAlignments == {TEST_ALIGNMENT_STR, COMPACT_ALIGNMENT_STR, TIGHT_ALIGNMENT_STR}

Repeat(op, n) == [i \in 1..n |-> op]

\* What Aligner::local returns for the reference (x) and a query (y): no clip
\* operations, Match first and last, and one run of edits in between.
LocalAlignment(xlen, xstart, ystart, xtail, pre, kind, run) ==
    LET xend == xlen - xtail
        xrun == IF kind \in {"Subst", "Ins"} THEN run ELSE 0
        yrun == IF kind \in {"Subst", "Del"} THEN run ELSE 0
        post == xend - xstart - pre - xrun
        yend == ystart + pre + yrun + post
    IN [xstart |-> xstart, ystart |-> ystart, xend |-> xend, yend |-> yend,
        xlen |-> xlen, ylen |-> yend,
        operations |-> Repeat(Op("Match"), pre) \o Repeat(Op(kind), run)
                          \o Repeat(Op("Match"), post),
        mode |-> "Local"]

\* The documentations of a reference's missing canonical numbers that are
\* tried: none, and the canonical positions where its gapped string has a gap.
MissingChoices(ref) ==
    {{}, {c \in DOMAIN ref.alignment : ref.alignment[c] = "-"}}

\* The ReferenceAlignment handed to the numbering.
ReferenceAlignment(ref, missing_positions, a) ==
    [reference |-> [name |-> ref.name, alignment |-> ref.alignment,
                    conserved_residues |-> ref.conserved_residues,
                    missing_positions |-> missing_positions],
     alignment |-> a]

\* The CDR regions handed to the CDR numberers on their own.
RegionInputs ==
    {Annotation(start, start + length, name) :
        start \in 0..MaxRegionStart, length \in 0..MaxRegionLength,
        name \in {"CDR1-IMGT", "CDR2-IMGT", "CDR3-IMGT"}}

\* The local alignment of a query that shares nothing with the reference.
EmptyAlignment(xlen) ==
    [xstart |-> 0, ystart |-> 0, xend |-> 0, yend |-> 0, xlen |-> xlen, ylen |-> 0,
     operations |-> <<>>, mode |-> "Local"]

(***************************************************************************)
(* The reference model: one reference string is constructed, its anchors   *)
(* are transferred through its own identity alignment, and it is annotated *)
(* against itself.                                                         *)
(***************************************************************************)
InitReference ==
    /\ pc = "input"
    /\ alignment_str \in ReferenceInputs
    /\ reference = None
    /\ alignment = None
    /\ transferred = None
    /\ vregion = None
    /\ region = None
    /\ missing = None
    /\ numbered = None
    /\ diagnostic = <<>>
    /\ output = <<>>

NewReference ==
    /\ pc = "input"
    /\ reference' = ReferenceSequence_new("test", alignment_str)
    /\ pc' = "constructed"
    /\ UNCHANGED <<output, region, missing, numbered, diagnostic, alignment_str, alignment, transferred, vregion>>

TransferIdentity ==
    /\ pc = "constructed"
    /\ reference.tag = "Ok"
    /\ alignment' = IdentityAlignment(reference.value)
    /\ transferred' = transfer(reference.value.conserved_residues, alignment')
    /\ pc' = "transferred"
    /\ UNCHANGED <<output, region, missing, numbered, diagnostic, alignment_str, reference, vregion>>

GetVRegionAnnotation ==
    /\ pc = "transferred"
    /\ \E overflow_checks \in BOOLEAN :
          vregion' = get_vregion_annotation(reference.value, overflow_checks)
    /\ pc' = "annotated"
    /\ UNCHANGED <<output, region, missing, numbered, diagnostic, alignment_str, reference, alignment, transferred>>

NextReference == NewReference \/ TransferIdentity \/ GetVRegionAnnotation

SpecReference == InitReference /\ [][NextReference]_vars

(***************************************************************************)
(* The query pipeline of bin/numerotator.rs: align, transfer the anchors,  *)
(* detect the regions, go on with the next query.                          *)
(***************************************************************************)
Init ==
    /\ pc = "align"
    /\ alignment_str \in CuratedAlignments
    /\ reference = ReferenceSequence_new("ref", alignment_str)
    /\ alignment = None
    /\ transferred = None
    /\ vregion = None
    /\ region = None
    /\ missing = None
    /\ numbered = None
    /\ diagnostic = <<>>
    /\ output = <<>>

Align ==
    /\ pc = "align"
    /\ LET xlen == Len(get_sequence(reference.value))
       IN \E xstart \in {0, MaxXStart}, ystart \in {0, MaxYStart}, xtail \in {0, MaxXTail},
             run \in {0, MaxRun, LongRun} :
          \E pre \in IF run = 0 THEN {1} ELSE 1..xlen,
             kind \in IF run = 0 THEN {"Subst"}
                      ELSE IF run > MaxRun THEN {"Ins"}
                      ELSE {"Subst", "Del", "Ins"} :
             /\ xlen - xtail - xstart - pre - (IF kind = "Del" THEN 0 ELSE run) >= 1
             /\ alignment' = LocalAlignment(xlen, xstart, ystart, xtail, pre, kind, run)
    /\ pc' = "transfer"
    /\ UNCHANGED <<output, region, missing, numbered, diagnostic, alignment_str, reference, transferred, vregion>>

AlignNothing ==
    /\ pc = "align"
    /\ alignment' = EmptyAlignment(Len(get_sequence(reference.value)))
    /\ pc' = "transfer"
    /\ UNCHANGED <<output, region, missing, numbered, diagnostic, alignment_str, reference, transferred, vregion>>

Transfer ==
    /\ pc = "transfer"
    /\ transferred' = transfer(reference.value.conserved_residues, alignment)
    /\ diagnostic' = report_error(transferred', TransferErr_fmt(transferred'.error), diagnostic)
    /\ pc' = IF transferred'.tag = "Ok" THEN "detect" ELSE "reported"
    /\ UNCHANGED <<output, region, missing, numbered, alignment_str, reference, alignment, vregion>>

Detect ==
    /\ pc = "detect"
    /\ \E overflow_checks \in BOOLEAN :
          vregion' = VRegionAnnotation_try_from(transferred.value, alignment,
                                                overflow_checks)
    /\ pc' = CASE vregion'.tag = "Ok" -> "annotated"
               [] vregion'.tag = "Err" -> "reported"
               [] OTHER -> "panicked"
    /\ diagnostic' = report_error(vregion', IMGTError_fmt(vregion'.error), diagnostic)
    /\ UNCHANGED <<output, region, missing, numbered, alignment_str, reference, alignment, transferred>>

\* The for_each of main with only_regions set: the seven regions of the
\* annotated query are written.
WriteRegions ==
    /\ pc = "annotated"
    /\ output' = VRegionAnnotation_into_iter(vregion.value)
    /\ pc' = "written"
    /\ UNCHANGED <<region, missing, numbered, diagnostic, alignment_str, reference,
                   alignment, transferred, vregion>>

\* The numbering of an annotated query, for one documentation of the
\* reference's missing numbers.
NumberRegions ==
    /\ pc = "annotated"
    /\ \E m \in MissingChoices(reference.value) :
          /\ missing' = Some(m)
          /\ numbered' = number_regions(vregion.value,
                                        ReferenceAlignment(reference.value, m, alignment))
    /\ diagnostic' = report_error(numbered', IMGTError_fmt(numbered'.error), diagnostic)
    /\ pc' = IF numbered'.tag = "Ok" THEN "numbered" ELSE "reported"
    /\ UNCHANGED <<output, region, alignment_str, reference, alignment, transferred, vregion>>

NextQuery ==
    /\ pc \in {"annotated", "written", "numbered", "reported"}
    /\ alignment' = None
    /\ transferred' = None
    /\ vregion' = None
    /\ missing' = None
    /\ numbered' = None
    /\ diagnostic' = <<>>
    /\ output' = <<>>
    /\ pc' = "align"
    /\ UNCHANGED <<region, alignment_str, reference>>

Next ==
    Align \/ AlignNothing \/ Transfer \/ Detect \/ WriteRegions \/ NumberRegions \/ NextQuery

Spec == Init /\ [][Next]_vars

(***************************************************************************)
(* The CDR numberers on their own: one CDR region is numbered by the       *)
(* numberer of its name, and an error is reported.                         *)
(***************************************************************************)
InitNumbering ==
    /\ pc = "number"
    /\ region \in RegionInputs
    /\ alignment_str = None
    /\ reference = None
    /\ alignment = None
    /\ transferred = None
    /\ vregion = None
    /\ missing = None
    /\ numbered = None
    /\ diagnostic = <<>>
    /\ output = <<>>

Numbered(result) ==
    /\ numbered' = result
    /\ diagnostic' = report_error(result, IMGTError_fmt(result.error), diagnostic)
    /\ pc' = IF result.tag = "Ok" THEN "numbered" ELSE "reported"
    /\ UNCHANGED <<alignment_str, reference, alignment, transferred, vregion,
                   region, missing, output>>

NumberCdr1 ==
    /\ pc = "number"
    /\ region.name = "CDR1-IMGT"
    /\ Numbered(number_cdr1(region.start, region.end))

NumberCdr2 ==
    /\ pc = "number"
    /\ region.name = "CDR2-IMGT"
    /\ Numbered(number_cdr2(region.start, region.end))

NumberCdr3 ==
    /\ pc = "number"
    /\ region.name = "CDR3-IMGT"
    /\ Numbered(number_cdr3(region.start, region.end))

\* The numberer of single_letter_annotations.rs applied to the length of the
\* same region; its result is kept in `output`.
Labelled(result) ==
    /\ pc \in {"numbered", "reported"}
    /\ output' = result
    /\ pc' = "labelled"
    /\ UNCHANGED <<alignment_str, reference, alignment, transferred, vregion,
                   region, missing, numbered, diagnostic>>

SingleLetterCdr1 ==
    /\ region.name = "CDR1-IMGT"
    /\ Labelled(single_letter_annotations_number_cdr1(region.end - region.start))

SingleLetterCdr2 ==
    /\ region.name = "CDR2-IMGT"
    /\ Labelled(single_letter_annotations_number_cdr2(region.end - region.start))

SingleLetterCdr3 ==
    /\ region.name = "CDR3-IMGT"
    /\ Labelled(single_letter_annotations_number_cdr3(region.end - region.start))

NextNumbering ==
    \/ NumberCdr1 \/ NumberCdr2 \/ NumberCdr3
    \/ SingleLetterCdr1 \/ SingleLetterCdr2 \/ SingleLetterCdr3

SpecNumbering == InitNumbering /\ [][NextNumbering]_vars

(***************************************************************************)
(* Properties of the reference model (checked under SpecReference).        *)
(***************************************************************************)
Constructed == pc # "input" /\ reference.tag = "Ok"

AnchorsOf(cr) ==
    <<cr.first_cys, cr.conserved_trp, cr.hydrophobic_89, cr.second_cys, cr.j_trp_or_phe>>

\* The gaps among the first c bytes of s, counted on the prefix itself.
GapsAmongFirst(s, c) ==
    Len(SelectSeq(SubSeq(s, 1, Min(c, Len(s))), LAMBDA b : b = "-"))

\* C1: the anchors of every reference string accepted by is_valid_alignment
\* increase strictly: first_cys < conserved_trp < hydrophobic_89 < second_cys
\* < j_trp_or_phe.
C1_AnchorsStrictlyIncrease ==
    Constructed =>
        LET cr == reference.value.conserved_residues
        IN /\ cr.first_cys < cr.conserved_trp
           /\ cr.conserved_trp < cr.hydrophobic_89
           /\ cr.hydrophobic_89 < cr.second_cys
           /\ cr.second_cys < cr.j_trp_or_phe

\* An accepted reference with fewer residues between the first Cysteine and
\* the Tryptophan than the sample string has.
C1_Witness ==
    /\ Constructed
    /\ reference.value.conserved_residues.conserved_trp
          - reference.value.conserved_residues.first_cys < 10

\* C2: transferring a valid reference's own anchors through the identity
\* alignment of its ungapped sequence succeeds and returns the same five
\* positions.
C2_IdentityTransferRoundTrip ==
    (pc \in {"transferred", "annotated"}) =>
        transferred = Ok(reference.value.conserved_residues)

\* The round trip has run on a reference other than the sample string.
C2_Witness ==
    /\ pc = "transferred"
    /\ transferred.tag = "Ok"
    /\ alignment.operations # <<>>
    /\ alignment_str # TEST_ALIGNMENT_STR
    /\ transferred.value.first_cys # 22

\* C3: the anchor of canonical position c is c minus the number of '-' among
\* the first c bytes of the gapped string; the sample string gives 22, 36, 81,
\* 96 and 102.
C3_AnchorIsPositionMinusGaps ==
    LET cr == ConservedResidues_from(alignment_str)
    IN /\ \A k \in DOMAIN CanonicalAnchors :
             AnchorsOf(cr)[k] = CanonicalAnchors[k]
                                  - GapsAmongFirst(alignment_str, CanonicalAnchors[k])
       /\ Constructed => reference.value.conserved_residues = cr
       /\ alignment_str = TEST_ALIGNMENT_STR => AnchorsOf(cr) = <<22, 36, 81, 96, 102>>

\* The sample string has been constructed as a reference.
C3_Witness ==
    /\ Constructed
    /\ alignment_str = TEST_ALIGNMENT_STR
    /\ AnchorsOf(reference.value.conserved_residues) = <<22, 36, 81, 96, 102>>

\* C4: the anchors are 0-based indices into the ungapped sequence: the residue
\* of get_sequence at index first_cys is the byte of canonical position 23 of
\* the gapped string, and likewise for the other four anchors.  (Index i of a
\* Rust slice is element i + 1 of a sequence here.)
C4_AnchorsAreZeroBasedIndices ==
    Constructed =>
        LET sequence == get_sequence(reference.value)
            anchors == AnchorsOf(reference.value.conserved_residues)
        IN \A k \in DOMAIN CanonicalAnchors :
              /\ anchors[k] + 1 <= Len(sequence)
              /\ sequence[anchors[k] + 1] = alignment_str[CanonicalAnchors[k]]

\* C5: a gapped string is accepted (is_valid_alignment returns a value and
\* ReferenceSequence::new succeeds) exactly when it has at least 118 bytes and
\* the bytes at positions 23, 41, 89, 104 and 118 are C, W, one of AILMFWYV, C
\* and one of FW; otherwise ReferenceSequence::new returns InvalidAlignment.
C5_Acceptable(s) ==
    /\ Len(s) >= 118
    /\ s[23] = "C"
    /\ s[41] = "W"
    /\ s[89] \in {"A", "I", "L", "M", "F", "W", "Y", "V"}
    /\ s[104] = "C"
    /\ s[118] \in {"F", "W"}

C5_AcceptedExactlyWhenAnchorsMatch ==
    pc # "input" =>
        /\ (is_valid_alignment(alignment_str) # None) <=> C5_Acceptable(alignment_str)
        /\ (reference.tag = "Ok") <=> C5_Acceptable(alignment_str)
        /\ ~C5_Acceptable(alignment_str) => reference = Err("InvalidAlignment")

\* A string of exactly 118 bytes with F at position 118 has been accepted.
C5_Witness ==
    /\ pc = "constructed"
    /\ reference.tag = "Ok"
    /\ Len(alignment_str) = 118
    /\ alignment_str[118] = "F"

(***************************************************************************)
(* Properties of anchor transfer and region detection (checked under       *)
(* Spec).                                                                  *)
(***************************************************************************)
Aligned(e) == e.op.kind \in {"Match", "Subst"}

\* The path entries that align reference position pos to a query residue.
AlignedEntries(p, pos) == {i \in DOMAIN p : p[i].x = pos /\ Aligned(p[i])}

FirstOf(S) == CHOOSE i \in S : \A j \in S : i <= j

LastOf(S) == CHOOSE i \in S : \A j \in S : j <= i

NonClipEntries(p) == {i \in DOMAIN p : NonClip(p[i].op)}

ReferenceAnchors == AnchorsOf(reference.value.conserved_residues)

\* transfer has just returned.
Transferred == pc \in {"detect", "reported"} /\ vregion = None

\* C6: transfer maps each reference anchor p to the query_position of the
\* first path entry with reference_position p and operation Match or
\* Substitution, converted from the 1-based path coordinate to a 0-based index.
C6_TransferConvertsToZeroBased ==
    (Transferred /\ transferred.tag = "Ok") =>
        LET p == path(alignment)
        IN \A k \in 1..5 :
              AnchorsOf(transferred.value)[k]
                 = p[FirstOf(AlignedEntries(p, ReferenceAnchors[k]))].y - 1

\* C7: transfer fails with the anchor-not-aligned error and returns no anchor
\* set whenever one of the five anchors has no Match/Substitution entry in the
\* path, and succeeds whenever all five have one.
C7_TransferFailsIffAnchorUnaligned ==
    Transferred =>
        LET p == path(alignment)
            unaligned == {k \in 1..5 : AlignedEntries(p, ReferenceAnchors[k]) = {}}
        IN /\ unaligned # {} => transferred = Err("ConservedPositionNotInAlignment")
           /\ unaligned = {} => transferred.tag = "Ok"

\* A transfer has failed on an alignment that spans the whole reference: an
\* anchor fell on an Ins operation.
C7_Witness ==
    /\ pc = "reported"
    /\ transferred = Err("ConservedPositionNotInAlignment")
    /\ alignment.xstart = 0
    /\ alignment.xend = alignment.xlen
    /\ \E i \in DOMAIN alignment.operations : alignment.operations[i].kind = "Ins"

C9_UncoveredEndsAreSilent ==
    LET p == path(alignment)
    IN (/\ vregion # None
        /\ \/ {i \in NonClipEntries(p) : p[i].x = 1} = {}
           \/ {i \in NonClipEntries(p) : p[i].x = alignment.xlen} = {})
       => /\ vregion.tag # "Panic"
          /\ vregion.tag = "Ok" =>
                /\ vregion.value.framework_annotation.fr1.start
                      = p[FirstOf(NonClipEntries(p))].y - 1
                /\ vregion.value.framework_annotation.fr4.end
                      = p[LastOf(NonClipEntries(p))].y

\* C10: detect_regions validates FR1/FR2, FR2/FR3, FR3/FR4 in that order: it
\* fails with OverlappingRegions(A, B) for the first pair with A.end > B.start
\* and succeeds exactly when no pair has A.end > B.start; the starts are the
\* usize values the build computes.
C10_FirstOverlappingPairIsReported ==
    (vregion # None /\ vregion.tag \in {"Ok", "Err"}) =>
        LET cr == transferred.value
            over12 == cr.first_cys + 3 > (cr.conserved_trp - 2) % UsizeModulus
            over23 == cr.conserved_trp + 14 > (cr.hydrophobic_89 - 23) % UsizeModulus
            over34 == cr.second_cys > cr.j_trp_or_phe
        IN /\ (vregion.tag = "Ok") <=> (~over12 /\ ~over23 /\ ~over34)
           /\ over12 =>
                 vregion = Err(<<"OverlappingRegions", "FR1-IMGT", "FR2-IMGT">>)
           /\ (~over12 /\ over23) =>
                 vregion = Err(<<"OverlappingRegions", "FR2-IMGT", "FR3-IMGT">>)
           /\ (~over12 /\ ~over23 /\ over34) =>
                 vregion = Err(<<"OverlappingRegions", "FR3-IMGT", "FR4-IMGT">>)

\* FR1 overruns FR2 and FR2 overruns FR3, and the error names FR1 and FR2.
C10_Witness ==
    /\ pc = "reported"
    /\ vregion # None
    /\ vregion = Err(<<"OverlappingRegions", "FR1-IMGT", "FR2-IMGT">>)
    /\ transferred.value.conserved_trp + 14 > transferred.value.hydrophobic_89 - 23

(***************************************************************************)
(* Properties of the seven regions and of their numbering.                 *)
(***************************************************************************)
Annotated == vregion # None /\ vregion.tag = "Ok"

\* C11: the seven regions of a successfully annotated query, in the order
\* FR1, CDR1, FR2, CDR2, FR3, CDR3, FR4, are contiguous and strictly
\* increasing: each region starts no later than it ends, ends where the next
\* one starts, and starts strictly before the next one.
C11_RegionsContiguousAndStrictlyIncreasing ==
    Annotated =>
        LET regions == VRegionAnnotation_into_iter(vregion.value)
        IN /\ \A i \in DOMAIN regions : regions[i].start <= regions[i].end
           /\ \A i \in 1..(Len(regions) - 1) :
                 /\ regions[i].end = regions[i + 1].start
                 /\ regions[i].start < regions[i + 1].start

(***************************************************************************)
(* Properties of the CDR numberers (checked under SpecNumbering).          *)
(***************************************************************************)
NumberingDone == pc \in {"numbered", "reported"}

RegionLength == region.end - region.start

Names(annotations) == [i \in DOMAIN annotations |-> annotations[i].name]

\* The canonical span of a CDR, by the name of the region.
CanonicalSpan(name) ==
    CASE name = "CDR1-IMGT" -> CDR1_START..(FR2_START - 1)
      [] name = "CDR2-IMGT" -> CDR2_START..(FR3_START - 1)
      [] name = "CDR3-IMGT" -> CDR3_START..(FR4_START - 1)

\* The lengths the tables of a CDR cover according to the claim.
TabulatedLengths(name) ==
    CASE name = "CDR1-IMGT" -> 5..12
      [] name = "CDR2-IMGT" -> 0..10
      [] name = "CDR3-IMGT" -> 5..13

\* The number a label of a span is the decimal string of.
NumberOf(label, span) == CHOOSE n \in span : ToString(n) = label

\* C12: for CDR1 of length 5..12, CDR2 of length 0..10 and CDR3 of length
\* 5..13 the numbering returns as many labels as the region has residues, all
\* within the canonical span of the region, strictly ascending (hence all
\* distinct), the i-th label on residue position start + i; a CDR3 of length
\* 13 gets 105, 106, ..., 117.
C12_TabulatedLengthsAreNumbered ==
    (NumberingDone /\ RegionLength \in TabulatedLengths(region.name)) =>
        /\ numbered.tag = "Ok"
        /\ LET labels == numbered.value
               span == CanonicalSpan(region.name)
           IN /\ Len(labels) = RegionLength
              /\ \A i \in DOMAIN labels :
                    /\ labels[i].start = region.start + (i - 1)
                    /\ labels[i].end = labels[i].start + 1
                    /\ \E n \in span : ToString(n) = labels[i].name
              /\ \A i \in 1..(Len(labels) - 1) :
                    NumberOf(labels[i].name, span) < NumberOf(labels[i + 1].name, span)
              /\ (region.name = "CDR3-IMGT" /\ RegionLength = 13) =>
                    Names(labels) = ToStrings(Range(105, 118))

\* A CDR3 of thirteen residues that does not start at position 0 is numbered.
C12_Witness ==
    /\ pc = "numbered"
    /\ region.name = "CDR3-IMGT"
    /\ RegionLength = 13
    /\ region.start > 0
    /\ Len(numbered.value) = 13

\* C13: number_cdr1 fails with RegionTooLong("CDR1-IMGT", L) for every length
\* L > 12 and number_cdr2 with RegionTooLong("CDR2-IMGT", L) for every length
\* L > 10; the result is the error alone, carrying the length of the region.
C13_LongerThanTableIsRegionTooLong ==
    /\ (NumberingDone /\ region.name = "CDR1-IMGT" /\ RegionLength > 12) =>
           numbered = Err(<<"RegionTooLong", "CDR1-IMGT", RegionLength>>)
    /\ (NumberingDone /\ region.name = "CDR2-IMGT" /\ RegionLength > 10) =>
           numbered = Err(<<"RegionTooLong", "CDR2-IMGT", RegionLength>>)

\* A CDR1 of thirteen residues that does not start at position 0 is rejected.
C13_Witness ==
    /\ pc = "reported"
    /\ region.name = "CDR1-IMGT"
    /\ RegionLength = 13
    /\ region.start > 0
    /\ numbered.tag = "Err"

\* C14: number_cdr3 fails with CDR3TooShort(L) for every length L < 5 and
\* fails for no length L >= 5.
C14_Cdr3TooShortExactlyBelowFive ==
    (NumberingDone /\ region.name = "CDR3-IMGT") =>
        /\ RegionLength < 5 => numbered = Err(<<"CDR3TooShort", RegionLength>>)
        /\ RegionLength >= 5 => numbered.tag = "Ok"

\* A CDR3 of four residues is rejected.
C14_Witness ==
    /\ pc = "reported"
    /\ region.name = "CDR3-IMGT"
    /\ RegionLength = 4
    /\ numbered = Err(<<"CDR3TooShort", 4>>)

\* C15: a CDR3 of length 19 gets the labels 105, ..., 111, 111.0, 111.1,
\* 111.2, 112.2, 112.1, 112.0, 112, 113, ..., 117, in that order.
C15_Cdr3OfLength19 ==
    (NumberingDone /\ region.name = "CDR3-IMGT" /\ RegionLength = 19) =>
        /\ numbered.tag = "Ok"
        /\ Names(numbered.value) =
              <<"105", "106", "107", "108", "109", "110", "111",
                "111.0", "111.1", "111.2", "112.2", "112.1", "112.0",
                "112", "113", "114", "115", "116", "117">>

\* C16: when the numbering of a CDR region [start, end) succeeds, also for a
\* CDR3 longer than 13, it has end - start entries, the i-th on residue
\* position start + i, and no two entries have the same label.
C16_OneLabelPerResidue ==
    (NumberingDone /\ numbered.tag = "Ok") =>
        LET labels == numbered.value
        IN /\ Len(labels) = RegionLength
           /\ \A i \in DOMAIN labels :
                 /\ labels[i].start = region.start + (i - 1)
                 /\ labels[i].end = labels[i].start + 1
           /\ \A i, j \in DOMAIN labels : labels[i].name = labels[j].name => i = j

\* A CDR3 with an odd number of residues beyond the 11 that get plain numbers.
C16_Witness ==
    /\ pc = "numbered"
    /\ region.name = "CDR3-IMGT"
    /\ RegionLength = 16
    /\ Len(numbered.value) = 16

(***************************************************************************)
(* Properties of the framework numbering and of the whole numbering        *)
(* (checked under Spec).                                                   *)
(***************************************************************************)
NumberingTried == missing # None

Frameworks4 == {"FR1", "FR2", "FR3", "FR4"}

\* The ReferenceAlignment that NumberRegions handed to number_regions.
NumberedAlignment == ReferenceAlignment(reference.value, missing.value, alignment)

\* The path entries of a framework: reference position in the canonical span,
\* operation Match or Subst.
FrameworkEntries(p, framework) ==
    LET range == FrameworkRange(framework)
    IN SelectSeq(p, LAMBDA e : /\ range[1] <= e.x /\ e.x <= range[Len(range)]
                               /\ e.op.kind \in {"Match", "Subst"})

\* C17: number_framework emits one entry for exactly the path entries whose
\* reference position lies in the canonical span of the framework and whose
\* operation is Match or Substitution; the label of the entry is the
\* reference position as a number string and its position is the query
\* position of the path entry as a 0-based index.
C17_FrameworkLabelsAreReferencePositions ==
    NumberingTried =>
        LET p == path(alignment)
        IN \A framework \in Frameworks4 :
              LET entries == FrameworkEntries(p, framework)
              IN number_framework_on(p, NumberedAlignment.reference, framework)
                    = [i \in DOMAIN entries |->
                          Annotation(entries[i].y - 1, entries[i].y, ToString(entries[i].x))]

\* C18: the canonical numbers that number_framework pairs with the query
\* residues are the numbers of the span without those the reference is
\* documented to lack, in order, so that no emitted entry carries a missing
\* number and the entries are as many as the shorter of the two sequences.
C18_MissingNumbersAreExcluded ==
    NumberingTried =>
        LET p == path(alignment)
            ref == NumberedAlignment.reference
        IN \A framework \in Frameworks4 :
              LET present == SelectSeq(FrameworkRange(framework),
                                       LAMBDA pos : pos \notin missing.value)
                  emitted == number_framework_on(p, ref, framework)
              IN /\ framework_numbers(ref, framework) = present
                 /\ \A i \in DOMAIN emitted : emitted[i].end \notin missing.value
                 /\ Len(emitted) = Min(Len(FrameworkEntries(p, framework)), Len(present))

\* A piece of the message is the given text.
Mentions(message, text) == \E i \in DOMAIN message : message[i] = text

\* The anchors of the reference that have no Match or Subst entry in the path.
UnalignedAnchors ==
    LET p == path(alignment)
        cr == reference.value.conserved_residues
        names == <<"first_cys", "conserved_trp", "hydrophobic_89", "second_cys",
                   "j_trp_or_phe">>
    IN {names[k] : k \in {k \in 1..5 :
            find_corresponding_position_in_alignment(p, AnchorsOf(cr)[k]) = None}}

\* C19: the diagnostic of every reported error names all offending values:
\* both region names of OverlappingRegions(a, b), the region name and the
\* length of RegionTooLong(name, length), the length of CDR3TooShort(length),
\* and, for a failed anchor transfer, an anchor that was not aligned.
C19_DiagnosticNamesOffendingValues ==
    (pc = "reported") =>
        IF transferred.tag = "Err"
        THEN \E anchor \in UnalignedAnchors : Mentions(diagnostic, anchor)
        ELSE IF vregion.tag = "Err"
        THEN /\ Mentions(diagnostic, vregion.error[2])
             /\ Mentions(diagnostic, vregion.error[3])
        ELSE IF numbered.error[1] = "RegionTooLong"
        THEN /\ Mentions(diagnostic, numbered.error[2])
             /\ Mentions(diagnostic, ToString(numbered.error[3]))
        ELSE /\ numbered.error[1] = "CDR3TooShort"
             /\ Mentions(diagnostic, ToString(numbered.error[2]))

\* The result of numbering the three CDRs of the annotated query one by one.
CdrResults ==
    LET cdr == vregion.value.cdr_annotation
    IN <<number_cdr1(cdr.cdr1.start, cdr.cdr1.end),
         number_cdr2(cdr.cdr2.start, cdr.cdr2.end),
         number_cdr3(cdr.cdr3.start, cdr.cdr3.end)>>

\* C20: no partial annotation of a failed query: when the numbering of a CDR
\* fails, number_regions returns the error of the first failing CDR in the
\* order CDR1, CDR2, CDR3 and no labels; a query whose anchor transfer or
\* region detection fails has no region output and is not numbered.
C20_NoPartialAnnotation ==
    /\ NumberingTried =>
          LET failing == {k \in 1..3 : CdrResults[k].tag = "Err"}
          IN /\ failing # {} =>
                   numbered = CdrResults[CHOOSE k \in failing : \A l \in failing : k <= l]
             /\ failing = {} => numbered.tag = "Ok"
    /\ ((transferred # None /\ transferred.tag = "Err")
           \/ (vregion # None /\ vregion.tag # "Ok")) =>
          /\ output = <<>>
          /\ numbered = None

\* CDR1 and CDR3 both fail and the error is that of CDR1.
C20_Witness ==
    /\ pc = "reported"
    /\ NumberingTried
    /\ CdrResults[1].tag = "Err"
    /\ CdrResults[2].tag = "Ok"
    /\ CdrResults[3].tag = "Err"
    /\ numbered = CdrResults[1]
    /\ output = <<>>

(***************************************************************************)
(* Properties of the batch (checked under Spec).                           *)
(***************************************************************************)
\* The query in hand has failed at the anchor transfer or at the detection.
QueryFailed ==
    \/ transferred # None /\ transferred.tag # "Ok"
    \/ vregion # None /\ vregion.tag # "Ok"

\* C21: a query that fails at the anchor transfer or the region detection is
\* reported and skipped, and the pipeline goes on with the next query of the
\* batch, which starts from the state it would start from without the
\* failing query.
C21_FailedQueryIsSkipped ==
    QueryFailed =>
        /\ pc = "reported"
        /\ diagnostic # <<>>
        /\ ENABLED NextQuery


(***************************************************************************)
(* Properties of the reference set (checked under SpecReference).          *)
(***************************************************************************)

\* C22: every reference accepted by ReferenceSequence::new is annotated by
\* get_vregion_annotation: the result is a VRegionAnnotation, never an
\* OverlappingRegions error turned into a panic, never any other panic.
C22_AcceptedReferenceIsAnnotated ==
    (pc = "annotated" /\ reference.tag = "Ok") => vregion.tag = "Ok"


\* The residues (non-gap bytes) of the canonical columns from..to of s.
ResidueColumns(s, from, to) == {c \in from..to : c <= Len(s) /\ s[c] # "-"}

\* The index in the ungapped sequence of the residue of canonical column c.
IndexOfColumn(s, c) == c - count_gaps_in_sequence_before_index(s, c) - 1

\* C27: for an accepted reference without a gap at the canonical columns
\* 24..26 and 39..55, get_vregion_annotation gives a CDR1 as long as the number
\* of residues at the columns 27..38, and an FR2 that holds exactly the 17
\* residues of the columns 39..55.
C27_ReferenceCdr1AndFr2 ==
    (/\ pc = "annotated"
     /\ vregion.tag = "Ok"
     /\ ResidueColumns(alignment_str, 24, 26) = 24..26
     /\ ResidueColumns(alignment_str, FR2_START, CDR2_START - 1) = FR2_START..(CDR2_START - 1)) =>
        LET cdr1 == vregion.value.cdr_annotation.cdr1
            fr2 == vregion.value.framework_annotation.fr2
        IN /\ cdr1.end - cdr1.start =
                 Cardinality(ResidueColumns(alignment_str, CDR1_START, FR2_START - 1))
           /\ fr2.start = IndexOfColumn(alignment_str, FR2_START)
           /\ fr2.end = IndexOfColumn(alignment_str, CDR2_START - 1) + 1
           /\ fr2.end - fr2.start = 17

(***************************************************************************)
(* Properties of the over-length CDR3 and of RegionTooLong (checked under  *)
(* SpecNumbering).                                                         *)
(***************************************************************************)
PlainLabels == {ToString(n) : n \in CDR3_START..(FR4_START - 1)}

IsInsertionCode(label) == label \notin PlainLabels

\* C23: for a CDR3 of length L > 13 the first 7 residues get 105, ..., 111,
\* the last 5 residues get 113, ..., 117, and exactly the L - 12 residues in
\* between get insertion-coded labels.
C23_LongCdr3Layout ==
    (NumberingDone /\ region.name = "CDR3-IMGT" /\ RegionLength > 13) =>
        /\ numbered.tag = "Ok"
        /\ LET names == Names(numbered.value)
               L == RegionLength
           IN /\ Len(names) = L
              /\ SubSeq(names, 1, 7) = ToStrings(Range(105, 112))
              /\ SubSeq(names, L - 4, L) = ToStrings(Range(113, 118))
              /\ \A i \in 8..(L - 5) : IsInsertionCode(names[i])

\* The labels of the insertion rule for a number of extra residues.
InsertionLabels(extra) ==
    LET n111 == extra \div 2
        n112 == extra - n111
    IN [i \in 1..n111 |-> "111." \o ToString(i - 1)]
       \o [i \in 1..n112 |-> "112." \o ToString(n112 - i)]

\* C24: for an over-length CDR3 of length L the insertion-coded labels are,
\* with extra = L - 13, n111 = floor(extra/2) and n112 = ceil(extra/2),
\* 111.0, ..., 111.(n111-1) followed by 112.(n112-1), ..., 112.0, attached
\* in that order to consecutive residue positions in ascending order.
C24_InsertionRule ==
    (NumberingDone /\ region.name = "CDR3-IMGT" /\ RegionLength > 13) =>
        /\ numbered.tag = "Ok"
        /\ LET coded == SelectSeq(numbered.value,
                                  LAMBDA a : IsInsertionCode(a.name))
           IN /\ Names(coded) = InsertionLabels(RegionLength - 13)
              /\ \A i \in 1..(Len(coded) - 1) :
                    coded[i + 1].start = coded[i].start + 1

\* C25: RegionTooLong is returned only for a length above the tabulated
\* maximum of the region (above 12 for CDR1, above 10 for CDR2), never for a
\* length at or below that maximum.
C25_RegionTooLongOnlyAboveMaximum ==
    (NumberingDone /\ numbered.tag = "Err" /\ numbered.error[1] = "RegionTooLong") =>
        \/ region.name = "CDR1-IMGT" /\ RegionLength > 12
        \/ region.name = "CDR2-IMGT" /\ RegionLength > 10


(***************************************************************************)
(* Properties of the transfer and of the detection (checked under Spec).   *)
(***************************************************************************)
TransferSucceeded == transferred # None /\ transferred.tag = "Ok"

StrictlyIncreasing(s) == \A i \in 1..(Len(s) - 1) : s[i] < s[i + 1]

\* C26: in a well-formed path every reference position has at most one Match
\* or Subst entry, and a successful transfer of strictly increasing reference
\* anchors returns strictly increasing query anchors.
C26_TransferPreservesOrder ==
    TransferSucceeded =>
        LET aligned == SelectSeq(path(alignment),
                                 LAMBDA e : e.op.kind \in {"Match", "Subst"})
        IN /\ StrictlyIncreasing([i \in DOMAIN aligned |-> aligned[i].x])
           /\ StrictlyIncreasing(AnchorsOf(reference.value.conserved_residues)) =>
                 StrictlyIncreasing(AnchorsOf(transferred.value))

\* A transfer over an alignment with a run of deletions in front of the last
\* anchor: the query anchors are not the reference anchors.
C26_Witness ==
    /\ TransferSucceeded
    /\ \E i \in DOMAIN alignment.operations : alignment.operations[i].kind = "Del"
    /\ transferred.value.first_cys = reference.value.conserved_residues.first_cys
    /\ transferred.value.j_trp_or_phe > reference.value.conserved_residues.j_trp_or_phe


\* The path entries of reference position 1 that are not clips.
FirstResidueEntries ==
    LET p == path(alignment)
    IN {p[i].y : i \in {j \in DOMAIN p : p[j].x = 1 /\ NonClip(p[j].op)}}

\* C29: region detection never underflows: after a successful transfer over a
\* path that contains reference position 1, conserved_trp >= 2,
\* hydrophobic_89 >= 23 and the query position of reference position 1 is
\* >= 1, so detection neither panics nor wraps around, and every CDR of the
\* result has end >= start.
C29_DetectionNeverUnderflows ==
    (TransferSucceeded /\ FirstResidueEntries # {}) =>
        /\ transferred.value.conserved_trp >= 2
        /\ transferred.value.hydrophobic_89 >= 23
        /\ \A y \in FirstResidueEntries : y >= 1
        /\ vregion # None =>
              /\ vregion.tag # "Panic"
              /\ vregion.tag = "Ok" =>
                    LET cdr == vregion.value.cdr_annotation
                    IN /\ cdr.cdr1.end >= cdr.cdr1.start
                       /\ cdr.cdr2.end >= cdr.cdr2.start
                       /\ cdr.cdr3.end >= cdr.cdr3.start

\* The region of the VRegionAnnotation that a framework is numbered for.
FrameworkRegion(framework) ==
    LET fr == vregion.value.framework_annotation
    IN CASE framework = "FR1" -> fr.fr1
         [] framework = "FR2" -> fr.fr2
         [] framework = "FR3" -> fr.fr3
         [] framework = "FR4" -> fr.fr4

\* C30: the output of a successful number_regions has its entries in the
\* order FR1, CDR1, FR2, CDR2, FR3, CDR3, FR4 with ascending positions, no
\* residue position in two entries, no label in two entries, and every
\* framework entry on a position inside its framework region [start, end).
C30_OutputIsOrderedAndDisjoint ==
    (NumberingTried /\ numbered.tag = "Ok") =>
        LET out == numbered.value
            p == path(alignment)
        IN /\ \A i \in 1..(Len(out) - 1) : out[i].start < out[i + 1].start
           /\ \A i, j \in DOMAIN out : out[i].start = out[j].start => i = j
           /\ \A i, j \in DOMAIN out : out[i].name = out[j].name => i = j
           /\ \A framework \in Frameworks4 :
                 LET entries == number_framework_on(p, NumberedAlignment.reference,
                                                    framework)
                 IN \A i \in DOMAIN entries :
                       /\ FrameworkRegion(framework).start <= entries[i].start
                       /\ entries[i].start < FrameworkRegion(framework).end

(***************************************************************************)
(* The two sets of CDR numberers (checked under SpecNumbering).            *)
(***************************************************************************)
\* C28: the CDR numberers of numbering.rs and of single_letter_annotations.rs
\* agree for every length: the same labels in the same order when both
\* succeed, and the same error otherwise.
C28_NumberersAgree ==
    pc = "labelled" =>
        /\ output.tag = numbered.tag
        /\ numbered.tag = "Ok" => output.value = Names(numbered.value)
        /\ numbered.tag = "Err" => output.error = numbered.error

====
